---- MODULE Spec2Model ----
(***************************************************************************)
(* State machine of the session controller in frontend/src/App.jsx and of  *)
(* the transport layer it calls (the api module).                          *)
(*                                                                         *)
(* Every handler is an async function: it runs synchronously up to its     *)
(* first await, is suspended while the transport call is in flight and is  *)
(* resumed by the call's resolution.  Each such synchronous stretch is one *)
(* action.  React commits the state updates of a stretch before the next   *)
(* event is dispatched, so a handler started by an event reads the current *)
(* state; inside the stretch it reads the values of the render it was      *)
(* created in (messages, inputValue, loading are not re-read after a       *)
(* setState).                                                              *)
(*                                                                         *)
(* The tab selection (activeTab) only decides which of the always          *)
(* available controls is on screen; switching is unconditional and has no  *)
(* other effect, so it is left out and every control is taken as reachable.*)
(***************************************************************************)
EXTENDS Naturals, Sequences, FiniteSets, Bags, TLC

\* ------------------------------------------------------------------ bounds
MaxOps == 2          \* operations the user starts after the mount: accepted
                     \* chat submissions, uploads, Refresh Status clicks and
                     \* confirmed clear-alls, in any mix

\* --------------------------------------------------------------- constants
TopK == 3            \* third argument of chatWithContext in handleSendMessage

\* values typed into the message input: empty, blank, and a text with a
\* blank before it
Inputs == {<<>>, <<" ">>, <<" ", "q">>}
\* sizes in bytes of the files offered for upload (progressEvent.total)
FileSizes == {3}
NoTimestamp == 0
\* null (useState(null)) is the empty set, a snapshot s is {s}
Null == {}
FileNames == {"notes.txt"}
NoText == <<>>

\* ------------------------------------------------------------ pure helpers
IsSpace(c) == c = " "

RECURSIVE TrimStart(_)
TrimStart(s) ==
  IF s = <<>> THEN <<>>
  ELSE IF IsSpace(Head(s)) THEN TrimStart(Tail(s)) ELSE s

RECURSIVE TrimEnd(_)
TrimEnd(s) ==
  IF s = <<>> THEN <<>>
  ELSE IF IsSpace(s[Len(s)]) THEN TrimEnd(SubSeq(s, 1, Len(s) - 1)) ELSE s

\* String.prototype.trim
Trim(s) == TrimEnd(TrimStart(s))

\* a quotient with its operands swapped
PercentCompleted_Swapped(loaded, total) ==
  (2 * total * 100 + loaded) \div (2 * loaded)

\* Math.round(loaded * 100 / total): round half up
PercentCompleted(loaded, total) == (200 * loaded + total) \div (2 * total)

IsPrefix(s, t) == Len(s) <= Len(t) /\ SubSeq(t, 1, Len(s)) = s

\* ---------------------------------------------------------------- messages
\* A transcript entry.  content is the template of the text with its
\* interpolated parts; timestamp is the ordinal of the chat turn that made
\* the entry (NoTimestamp: the entry has no timestamp field); sources tells
\* whether the entry carries the sources/metadata fields.
Message(role, tpl, text, n, ts, src) ==
  [role |-> role, content |-> [tpl |-> tpl, text |-> text, n |-> n],
   timestamp |-> ts, sources |-> src]

SystemMessage(tpl, text, n) == Message("system", tpl, text, n, NoTimestamp, FALSE)

\* errors thrown by a transport call: no response (network) or a non-2xx
\* response carrying a detail text
\* (detail <<>>: the error has no response.data.detail)
Errors ==
  { [message |-> <<"Network Error">>, detail |-> <<>>],
    [message |-> <<"Request failed">>, detail |-> <<"detail">>] }

\* error.response?.data?.detail || error.message
ErrorText(e) == IF e.detail # <<>> THEN e.detail ELSE e.message

VARIABLES
  messages, inputValue, loading, uploading, uploadProgress,
  health, documents, stats,
  chatCalls,      \* chatWithContext calls in flight
  initRuns,       \* bag of suspended initializeApp runs
  upload,         \* the suspended handleFileUpload run
  clearRuns,      \* bag of suspended handleClearDocuments runs
  backendDocs,    \* the backend's document list
  turns,          \* chat submissions accepted so far
  ops,            \* operations the user has started so far
  run             \* bookkeeping of the current uninterrupted series of chat turns

uiVars == <<messages, inputValue, loading, uploading, uploadProgress,
            health, documents, stats>>
vars == <<messages, inputValue, loading, uploading, uploadProgress,
          health, documents, stats, chatCalls, initRuns, upload, clearRuns,
          backendDocs, turns, ops, run>>

\* ------------------------------------------------------------- bookkeeping
\* run.base is the transcript at the start of the current series of chat
\* turns, run.n the turns of the series that succeeded; run.ok is FALSE
\* while a turn is in flight that another operation has written into.
FreshRun(msgs) == [base |-> msgs, n |-> 0, ok |-> TRUE]
BrokenRun == [base |-> <<>>, n |-> 0, ok |-> FALSE]

\* the series after a step of another operation that wrote the transcript
RunInterrupted(msgs, ld) == IF ld THEN BrokenRun ELSE FreshRun(msgs)

\* ------------------------------------------------------------- the backend
\* The backend is opaque: a list of stored documents, each chunked by size.
NumChunks(file) == file.size

DocumentSummary(file) == [filename |-> file.name, size |-> file.size]

RECURSIVE TotalChunks(_)
TotalChunks(docs) ==
  IF docs = <<>> THEN 0 ELSE NumChunks(Head(docs)) + TotalChunks(Tail(docs))

\* GET /health, GET /documents, GET /stats
HealthData == [ollama_connected |-> TRUE, chroma_connected |-> TRUE]
DocsData(docs) == [documents |-> docs]
StatsData(docs) == [num_chunks |-> TotalChunks(docs), has_index |-> docs # <<>>]

\* the response held by a non-null snapshot
Payload(resp) == CHOOSE d \in resp : TRUE

\* a reader of a field the response does not have: always the fallback
DocumentsOrEmpty_Fallback(docsData) == <<>>

\* docsData.documents || []  (the backend always sends the list; a list,
\* empty or not, is truthy and is kept as it is)
DocumentsOrEmpty(docsData) == docsData.documents

Files == {[name |-> f, size |-> n] : f \in FileNames, n \in FileSizes}

\* ------------------------------------------------------------------- Init
\* a suspended run: the call it awaits and, once the backend has answered
\* listDocuments, the response on its way back (Null before)
InitRun(pc, resp) == [pc |-> pc, resp |-> resp]
NoFile == [name |-> "", size |-> 0]
NoUpload == [pc |-> "idle", file |-> NoFile, loaded |-> 0, resp |-> Null]

\* useState defaults; the mount effect has called initializeApp, which is
\* suspended at checkHealth.  The backend is empty or holds a document of
\* an earlier session.
Init ==
  /\ messages = <<>>
  /\ inputValue = <<>>
  /\ loading = FALSE
  /\ uploading = FALSE
  /\ uploadProgress = 0
  /\ health = Null
  /\ documents = <<>>
  /\ stats = Null
  /\ chatCalls = {}
  /\ initRuns = SetToBag({InitRun("health", Null)})
  /\ upload = NoUpload
  /\ clearRuns = EmptyBag
  /\ backendDocs \in {<<>>} \cup {<<DocumentSummary(f)>> : f \in Files}
  /\ turns = 0
  /\ ops = 0
  /\ run = FreshRun(<<>>)

\* ------------------------------------------------------------------- chat
\* disabled={loading} of the message input
InputDisabled == loading

\* onChange of the message input: setInputValue(e.target.value)
setInputValue(s) ==
  /\ ~InputDisabled
  /\ s # inputValue
  /\ inputValue' = s
  /\ UNCHANGED <<messages, loading, uploading, uploadProgress, health,
                 documents, stats, chatCalls, initRuns, upload, clearRuns,
                 backendDocs, turns, ops, run>>

\* a guard that forgets to trim
SendAccepted_NoTrim(input, ld) == input # <<>> /\ ~ld

\* the negation of the early return of handleSendMessage
SendAccepted(input, ld) == Trim(input) # <<>> /\ ~ld

\* a filter that keeps every entry
NotSystem_KeepAll(msg) == TRUE

\* msg.role !== 'system'
NotSystem(msg) == msg.role # "system"

\* messages.filter(role !== 'system').map({role, content, timestamp})
History(msgs) ==
  LET kept == SelectSeq(msgs, NotSystem)
  IN  [i \in 1..Len(kept) |->
         [role |-> kept[i].role, content |-> kept[i].content,
          timestamp |-> kept[i].timestamp]]

\* a submission that forgets setLoading(true)
LoadingOnSubmit_Forgotten == FALSE

\* setLoading(true) of handleSendMessage
LoadingOnSubmit == TRUE

\* a handler that reads the transcript its own append has produced
TranscriptRead_AfterAppend(msgs, userMessage) == Append(msgs, userMessage)

\* `messages` as handleSendMessage reads it to build the history: the value
\* of the render the handler closes over, which setMessages does not change
TranscriptRead(msgs, userMessage) == msgs

\* a request that loses its topK argument
chatWithContext_NoTopK(query, history, topK, turn) ==
  [query |-> query, history |-> history, top_k |-> 0, turn |-> turn]

\* POST /chat with {query, history, top_k: topK}; turn tags the call with the
\* submission it belongs to
chatWithContext(query, history, topK, turn) ==
  [query |-> query, history |-> history, top_k |-> topK, turn |-> turn]

\* handleSendMessage up to its await.  It is started by Enter in the message
\* input (enabled while not loading) or by the Send button (enabled while not
\* loading and the input is not blank).  history and the query are read from
\* the render the handler belongs to: the transcript before the user entry.
handleSendMessage ==
  /\ ~InputDisabled
  /\ IF SendAccepted(inputValue, loading)
     THEN /\ ops < MaxOps
          /\ LET userMessage ==
                   Message("user", "text", inputValue, 0, turns + 1, FALSE)
             IN  /\ messages' = Append(messages, userMessage)
                 /\ chatCalls' = chatCalls \cup
                      {chatWithContext(inputValue,
                         History(TranscriptRead(messages, userMessage)),
                         TopK, turns + 1)}
          /\ inputValue' = <<>>
          /\ loading' = LoadingOnSubmit
          /\ turns' = turns + 1
          /\ ops' = ops + 1
     ELSE UNCHANGED <<messages, chatCalls, inputValue, loading, turns, ops>>
  /\ UNCHANGED <<uploading, uploadProgress, health, documents, stats,
                 initRuns, upload, clearRuns, backendDocs, run>>

\* an update that sets the transcript instead of appending to it
WithAssistant_Replace(msgs, c) ==
  <<Message("assistant", "answer", NoText, 0, c.turn, TRUE)>>

\* the transcript after the assistant entry of a resolved call is appended
WithAssistant(msgs, c) ==
  Append(msgs, Message("assistant", "answer", NoText, 0, c.turn, TRUE))

\* a handler without the finally block
LoadingAfterFinally_NotReset == loading

\* setLoading(false) of the finally block of handleSendMessage
LoadingAfterFinally == FALSE

\* chatWithContext resolved: the try block's tail, then finally
handleSendMessage_resolved(c) ==
  /\ c \in chatCalls
  /\ chatCalls' = chatCalls \ {c}
  /\ messages' = WithAssistant(messages, c)
  /\ loading' = LoadingAfterFinally
  /\ run' = IF run.ok THEN [run EXCEPT !.n = @ + 1] ELSE FreshRun(messages')
  /\ UNCHANGED <<inputValue, uploading, uploadProgress, health, documents,
                 stats, initRuns, upload, clearRuns, backendDocs, turns,
                 ops>>

\* chatWithContext rejected with error e: catch, then finally
handleSendMessage_rejected(c, e) ==
  /\ c \in chatCalls
  /\ chatCalls' = chatCalls \ {c}
  /\ messages' = Append(messages, SystemMessage("chat_error", ErrorText(e), 0))
  /\ loading' = LoadingAfterFinally
  /\ run' = FreshRun(messages')
  /\ UNCHANGED <<inputValue, uploading, uploadProgress, health, documents,
                 stats, initRuns, upload, clearRuns, backendDocs, turns,
                 ops>>

\* --------------------------------------------------------- initializeApp
\* onClick of Refresh Status: initializeApp up to await checkHealth()
initializeApp ==
  /\ ops < MaxOps
  /\ ops' = ops + 1
  /\ initRuns' = initRuns (+) SetToBag({InitRun("health", Null)})
  /\ UNCHANGED <<messages, inputValue, loading, uploading, uploadProgress,
                 health, documents, stats, chatCalls, upload, clearRuns,
                 backendDocs, turns, run>>

\* a run r of bag b moves on to r2
Moved(b, r, r2) == (b (-) SetToBag({r})) (+) SetToBag({r2})

\* checkHealth resolved: setHealth, then await listDocuments()
initializeApp_health(r) ==
  /\ BagIn(r, initRuns) /\ r.pc = "health"
  /\ health' = {HealthData}
  /\ initRuns' = Moved(initRuns, r, InitRun("docs", Null))
  /\ UNCHANGED <<messages, inputValue, loading, uploading, uploadProgress,
                 documents, stats, chatCalls, upload, clearRuns,
                 backendDocs, turns, ops, run>>

\* the backend answers the GET /documents of run r with its current list
listDocuments_init(r) ==
  /\ BagIn(r, initRuns) /\ r.pc = "docs" /\ r.resp = Null
  /\ initRuns' = Moved(initRuns, r, InitRun("docs", {DocsData(backendDocs)}))
  /\ UNCHANGED <<messages, inputValue, loading, uploading, uploadProgress,
                 health, documents, stats, chatCalls, upload, clearRuns,
                 backendDocs, turns, ops, run>>

\* listDocuments resolved: setDocuments, then await getStats()
initializeApp_docs(r) ==
  /\ BagIn(r, initRuns) /\ r.pc = "docs" /\ r.resp # Null
  /\ documents' = DocumentsOrEmpty(Payload(r.resp))
  /\ initRuns' = Moved(initRuns, r, InitRun("stats", Null))
  /\ UNCHANGED <<messages, inputValue, loading, uploading, uploadProgress,
                 health, stats, chatCalls, upload, clearRuns, backendDocs,
                 turns, ops, run>>

\* getStats resolved: setStats; the run ends
initializeApp_stats(r) ==
  /\ BagIn(r, initRuns) /\ r.pc = "stats"
  /\ stats' = {StatsData(backendDocs)}
  /\ initRuns' = initRuns (-) SetToBag({r})
  /\ UNCHANGED <<messages, inputValue, loading, uploading, uploadProgress,
                 health, documents, chatCalls, upload, clearRuns,
                 backendDocs, turns, ops, run>>

\* the transcript set by the catch block of initializeApp
InitFailedTranscript(msgs) == <<SystemMessage("init_failed", NoText, 0)>>

\* a try block around each call of its own: the run goes on to the next call
AfterInitFailure_GoesOn(b, r) ==
  IF r.pc = "health" THEN Moved(b, r, InitRun("docs", Null))
  ELSE IF r.pc = "docs" THEN Moved(b, r, InitRun("stats", Null))
  ELSE b (-) SetToBag({r})

\* the runs of b after the catch block of run r: one try block spans the
\* three calls, so the calls after the failed one are skipped
AfterInitFailure(b, r) == b (-) SetToBag({r})

\* the awaited call of run r rejected: the catch block; the run ends
initializeApp_catch(r) ==
  /\ BagIn(r, initRuns)
  /\ messages' = InitFailedTranscript(messages)
  /\ initRuns' = AfterInitFailure(initRuns, r)
  /\ run' = RunInterrupted(messages', loading)
  /\ UNCHANGED <<inputValue, loading, uploading, uploadProgress, health,
                 documents, stats, chatCalls, upload, clearRuns,
                 backendDocs, turns, ops>>

\* ------------------------------------------------------- handleFileUpload
\* an upload button that a chat turn in flight disables too
UploadDisabled_WhileLoading == uploading \/ loading

\* disabled={uploading} of the upload button, which opens the file dialog
UploadDisabled == uploading

\* onChange of the file input with event.target.files = files:
\* handleFileUpload up to await uploadDocument(file, setUploadProgress)
handleFileUpload(files) ==
  /\ ~UploadDisabled
  /\ IF files = <<>>
     THEN UNCHANGED <<uploading, uploadProgress, upload, ops>>
     ELSE /\ ops < MaxOps
          /\ uploading' = TRUE
          /\ uploadProgress' = 0
          /\ upload' = [pc |-> "upload", file |-> files[1], loaded |-> 0,
                        resp |-> Null]
          /\ ops' = ops + 1
  /\ UNCHANGED <<messages, inputValue, loading, health, documents, stats,
                 chatCalls, initRuns, clearRuns, backendDocs, turns, run>>

\* onUploadProgress of uploadDocument: loaded bytes so far, never fewer than
\* reported before; onProgress(percentCompleted) is setUploadProgress
onUploadProgress(loaded) ==
  /\ upload.pc = "upload"
  /\ loaded > upload.loaded /\ loaded <= upload.file.size
  /\ upload' = [upload EXCEPT !.loaded = loaded]
  /\ uploadProgress' = PercentCompleted(loaded, upload.file.size)
  /\ UNCHANGED <<messages, inputValue, loading, uploading, health,
                 documents, stats, chatCalls, initRuns, clearRuns,
                 backendDocs, turns, ops, run>>

\* a handler without the finally block's setUploading(false)
UploadingAfterFinally_NotReset == uploading

\* the upload state left by the finally block of handleFileUpload
UploadingAfterFinally == FALSE

\* the upload state while the refresh calls of a stored upload are awaited
UploadingDuringRefresh(u) == u

\* uploadDocument resolved (the backend stored the file): the success entry,
\* then await listDocuments()
handleFileUpload_uploaded ==
  /\ upload.pc = "upload"
  /\ backendDocs' = Append(backendDocs, DocumentSummary(upload.file))
  /\ messages' = Append(messages,
        SystemMessage("upload_ok", <<upload.file.name>>, NumChunks(upload.file)))
  /\ upload' = [upload EXCEPT !.pc = "docs"]
  /\ uploading' = UploadingDuringRefresh(uploading)
  /\ run' = RunInterrupted(messages', loading)
  /\ UNCHANGED <<inputValue, loading, uploadProgress, health, documents,
                 stats, chatCalls, initRuns, clearRuns, turns, ops>>

\* the backend answers the GET /documents of the upload with its current list
listDocuments_upload ==
  /\ upload.pc = "docs" /\ upload.resp = Null
  /\ upload' = [upload EXCEPT !.resp = {DocsData(backendDocs)}]
  /\ UNCHANGED <<messages, inputValue, loading, uploading, uploadProgress,
                 health, documents, stats, chatCalls, initRuns, clearRuns,
                 backendDocs, turns, ops, run>>

\* listDocuments resolved: setDocuments, then await getStats()
handleFileUpload_docs ==
  /\ upload.pc = "docs" /\ upload.resp # Null
  /\ documents' = DocumentsOrEmpty(Payload(upload.resp))
  /\ upload' = [upload EXCEPT !.pc = "stats", !.resp = Null]
  /\ UNCHANGED <<messages, inputValue, loading, uploading, uploadProgress,
                 health, stats, chatCalls, initRuns, clearRuns, backendDocs,
                 turns, ops, run>>

\* getStats resolved: setStats, then finally
handleFileUpload_stats ==
  /\ upload.pc = "stats"
  /\ stats' = {StatsData(backendDocs)}
  /\ uploading' = UploadingAfterFinally
  /\ uploadProgress' = 0
  /\ upload' = NoUpload
  /\ UNCHANGED <<messages, inputValue, loading, health, documents,
                 chatCalls, initRuns, clearRuns, backendDocs, turns, ops,
                 run>>

\* the awaited call (uploadDocument, listDocuments or getStats) rejected
\* with error e: catch, then finally
handleFileUpload_catch(e) ==
  /\ upload.pc \in {"upload", "docs", "stats"}
  /\ messages' = Append(messages, SystemMessage("upload_failed", ErrorText(e), 0))
  /\ uploading' = UploadingAfterFinally
  /\ uploadProgress' = 0
  /\ upload' = NoUpload
  /\ run' = RunInterrupted(messages', loading)
  /\ UNCHANGED <<inputValue, loading, health, documents, stats, chatCalls,
                 initRuns, clearRuns, backendDocs, turns, ops>>

\* --------------------------------------------------- handleClearDocuments
ClearRun(pc) == [pc |-> pc]

\* a handler that goes on whatever the answer
ClearConfirmed_AnyAnswer(answer) == TRUE

\* confirm('Are you sure ...') with the answer the user gives
ClearConfirmed(answer) == answer

\* onClick of Clear All with the answer given to confirm():
\* handleClearDocuments up to await clearAllDocuments()
handleClearDocuments(confirmed) ==
  /\ IF ~ClearConfirmed(confirmed)
     THEN UNCHANGED <<clearRuns, ops>>
     ELSE /\ ops < MaxOps
          /\ ops' = ops + 1
          /\ clearRuns' = clearRuns (+) SetToBag({ClearRun("clear")})
  /\ UNCHANGED <<messages, inputValue, loading, uploading, uploadProgress,
                 health, documents, stats, chatCalls, initRuns, upload,
                 backendDocs, turns, run>>

\* a functional update that appends the confirmation
ClearedTranscript_Append(msgs) ==
  Append(msgs, SystemMessage("clear_ok", NoText, 0))

\* the transcript and document list set after clearAllDocuments resolved
ClearedTranscript(msgs) == <<SystemMessage("clear_ok", NoText, 0)>>
ClearedDocuments(docs) == <<>>

\* clearAllDocuments resolved (the backend dropped its documents):
\* setMessages, setDocuments, then await getStats()
handleClearDocuments_cleared(r) ==
  /\ BagIn(r, clearRuns) /\ r.pc = "clear"
  /\ backendDocs' = <<>>
  /\ messages' = ClearedTranscript(messages)
  /\ documents' = ClearedDocuments(documents)
  /\ clearRuns' = Moved(clearRuns, r, ClearRun("stats"))
  /\ run' = RunInterrupted(messages', loading)
  /\ UNCHANGED <<inputValue, loading, uploading, uploadProgress, health,
                 stats, chatCalls, initRuns, upload, turns, ops>>

\* getStats resolved: setStats; the run ends
handleClearDocuments_stats(r) ==
  /\ BagIn(r, clearRuns) /\ r.pc = "stats"
  /\ stats' = {StatsData(backendDocs)}
  /\ clearRuns' = clearRuns (-) SetToBag({r})
  /\ UNCHANGED <<messages, inputValue, loading, uploading, uploadProgress,
                 health, documents, chatCalls, initRuns, upload,
                 backendDocs, turns, ops, run>>

\* a catch block that empties the list as the success path does
DocumentsAfterClearError_Emptied(docs) == <<>>

\* the document list after the catch block of handleClearDocuments
DocumentsAfterClearError(docs) == docs

\* the awaited call (clearAllDocuments or getStats) rejected with error e:
\* the catch block; the run ends
handleClearDocuments_catch(r, e) ==
  /\ BagIn(r, clearRuns)
  /\ messages' = Append(messages, SystemMessage("clear_error", e.message, 0))
  /\ documents' = DocumentsAfterClearError(documents)
  /\ clearRuns' = clearRuns (-) SetToBag({r})
  /\ run' = RunInterrupted(messages', loading)
  /\ UNCHANGED <<inputValue, loading, uploading, uploadProgress, health,
                 stats, chatCalls, initRuns, upload, backendDocs, turns,
                 ops>>

\* ------------------------------------------------------------------- Next
Next ==
  \/ \E s \in Inputs : setInputValue(s)
  \/ handleSendMessage
  \/ \E c \in chatCalls : handleSendMessage_resolved(c)
  \/ \E c \in chatCalls, e \in Errors : handleSendMessage_rejected(c, e)
  \/ initializeApp
  \/ \E r \in BagToSet(initRuns) : initializeApp_health(r)
  \/ \E r \in BagToSet(initRuns) : listDocuments_init(r)
  \/ \E r \in BagToSet(initRuns) : initializeApp_docs(r)
  \/ \E r \in BagToSet(initRuns) : initializeApp_stats(r)
  \/ \E r \in BagToSet(initRuns) : initializeApp_catch(r)
  \/ \E files \in {<<>>} \cup {<<f>> : f \in Files} : handleFileUpload(files)
  \/ \E l \in 1..upload.file.size : onUploadProgress(l)
  \/ handleFileUpload_uploaded
  \/ listDocuments_upload
  \/ handleFileUpload_docs
  \/ handleFileUpload_stats
  \/ \E e \in Errors : handleFileUpload_catch(e)
  \/ \E confirmed \in BOOLEAN : handleClearDocuments(confirmed)
  \/ \E r \in BagToSet(clearRuns) : handleClearDocuments_cleared(r)
  \/ \E r \in BagToSet(clearRuns) : handleClearDocuments_stats(r)
  \/ \E r \in BagToSet(clearRuns), e \in Errors : handleClearDocuments_catch(r, e)

Spec == Init /\ [][Next]_vars

\* --------------------------------------------------------------- fairness
\* every transport call of a chat turn or an upload eventually resolves
ChatSettles ==
  \E c \in chatCalls :
    handleSendMessage_resolved(c) \/ \E e \in Errors : handleSendMessage_rejected(c, e)

UploadSettles ==
  \/ handleFileUpload_uploaded
  \/ listDocuments_upload
  \/ handleFileUpload_docs
  \/ handleFileUpload_stats
  \/ \E e \in Errors : handleFileUpload_catch(e)

FairSpec == Spec /\ WF_vars(ChatSettles) /\ WF_vars(UploadSettles)

\* ----------------------------------------------------------------- claims
Last(s) == s[Len(s)]
Tpl(m) == m.content.tpl
HasTpl(msgs, t) == \E i \in 1..Len(msgs) : Tpl(msgs[i]) = t
AppendsOne(msgs, msgs2) == Len(msgs2) = Len(msgs) + 1 /\ IsPrefix(msgs, msgs2)

\* the steps of the handlers, as actions
ChatRejectedStep ==
  \E c \in chatCalls, e \in Errors : handleSendMessage_rejected(c, e)
ClearSucceededStep ==
  \E r \in BagToSet(clearRuns) : handleClearDocuments_cleared(r)
ClearFailedStep ==
  \E r \in BagToSet(clearRuns), e \in Errors :
    r.pc = "clear" /\ handleClearDocuments_catch(r, e)

\* C1: in a series of chat turns that no other operation and no failed turn
\* interrupts, after n successful turns the transcript is the transcript the
\* series started from followed by 2n entries, user then assistant of the
\* same turn, n times (and the user entry of the turn in flight, if any).
C1_AlternatingTurns ==
  run.ok =>
    LET k == Len(run.base) IN
      /\ IsPrefix(run.base, messages)
      /\ Len(messages) = k + 2 * run.n + (IF loading THEN 1 ELSE 0)
      /\ \A i \in 1..run.n :
           /\ messages[k + 2 * i - 1].role = "user"
           /\ messages[k + 2 * i].role = "assistant"
           /\ messages[k + 2 * i].timestamp = messages[k + 2 * i - 1].timestamp
      /\ loading => Last(messages).role = "user"

C1_Witness ==
  run.ok /\ run.n = 2 /\ run.base # <<>> /\ ~loading

\* C2: at most one chatWithContext call is outstanding, a call is
\* outstanding only while loading, and while a turn awaits its response no
\* step issues a call or appends a user entry.
UserEntries(msgs) == Len(SelectSeq(msgs, LAMBDA m : m.role = "user"))

C2_SingleTurnInFlight ==
  [][/\ Cardinality(chatCalls') <= 1
     /\ chatCalls' # {} => loading'
     /\ loading => /\ chatCalls' \subseteq chatCalls
                   /\ UserEntries(messages') <= UserEntries(messages)
                   /\ turns' = turns]_vars

C2_Witness ==
  loading /\ Cardinality(chatCalls) = 1 /\ ops < MaxOps

\* C3: every step other than the one that folds in a successful
\* clearAllDocuments leaves the old transcript a prefix of the new one.
C3_AppendOnly ==
  [][ClearSucceededStep \/ IsPrefix(messages, messages')]_vars

\* C4: no history handed to chatWithContext holds an entry of role system.
C4_HistoryWithoutSystem ==
  \A c \in chatCalls :
    \A i \in 1..Len(c.history) : c.history[i].role # "system"

\* a call with a non-empty history, issued from a transcript that held a
\* system entry before the call's user entry
C4_Witness ==
  \E c \in chatCalls :
    /\ c.history # <<>>
    /\ \E i, j \in 1..Len(messages) :
         /\ i < j
         /\ messages[i].role = "system"
         /\ messages[j].role = "user" /\ messages[j].timestamp = c.turn

\* C5: the step taken when chatWithContext fails, whatever the error,
\* appends exactly one entry, of role system, and leaves loading false.
C5_FailedTurn ==
  [][ChatRejectedStep =>
       /\ AppendsOne(messages, messages')
       /\ Last(messages').role = "system"
       /\ ~loading']_vars

C5_Witness ==
  /\ ~loading /\ chatCalls = {} /\ messages # <<>>
  /\ Tpl(Last(messages)) = "chat_error"
  /\ Last(messages).content.text = <<"Network Error">>
  /\ Len(messages) > 1 /\ messages[Len(messages) - 1].role = "user"

\* C6: handleSendMessage with an empty or whitespace-only input changes
\* neither the transcript, the input, the loading flag nor the calls in
\* flight.
C6_BlankSubmitNoOp ==
  [][(handleSendMessage /\ Trim(inputValue) = <<>>) =>
       UNCHANGED <<messages, inputValue, loading, chatCalls, turns>>]_vars

\* the input holds only whitespace and the submission reaches the handler
C6_Witness ==
  inputValue # <<>> /\ Trim(inputValue) = <<>> /\ ~InputDisabled /\ ops < MaxOps

\* C7: the step that folds in a successful clearAllDocuments leaves an empty
\* document list and a transcript of exactly the system confirmation.
C7_ClearSucceeded ==
  [][ClearSucceededStep =>
       /\ documents' = <<>>
       /\ Len(messages') = 1
       /\ messages'[1].role = "system" /\ Tpl(messages'[1]) = "clear_ok"]_vars

\* a clear-all has just succeeded while a chat turn was in flight: the
\* turn's user entry is gone
C7_Witness ==
  /\ \E r \in BagToSet(clearRuns) : r.pc = "stats"
  /\ loading
  /\ Len(messages) = 1 /\ Tpl(messages[1]) = "clear_ok"
  /\ documents = <<>>

\* C8: the step taken when clearAllDocuments fails leaves the document list
\* as it was and appends exactly one system error entry to the transcript.
C8_ClearFailed ==
  [][ClearFailedStep =>
       /\ documents' = documents
       /\ AppendsOne(messages, messages')
       /\ Last(messages').role = "system"
       /\ Tpl(Last(messages')) = "clear_error"]_vars

\* a transcript that was never reset ends with the error entry and the
\* document list is not empty
C8_Witness ==
  /\ Len(messages) > 1 /\ Tpl(Last(messages)) = "clear_error"
  /\ ~HasTpl(messages, "clear_ok") /\ ~HasTpl(messages, "init_failed")
  /\ documents # <<>>
  /\ clearRuns = EmptyBag

\* C9 as claimed: the step that appends the upload's success or failure
\* entry leaves the upload state idle with percent 0.
AppendsUploadEntry(t) ==
  AppendsOne(messages, messages') /\ Tpl(Last(messages')) = t

C9_IdleAfterUploadEntry ==
  [][(AppendsUploadEntry("upload_ok") \/ AppendsUploadEntry("upload_failed")) =>
       (~uploading' /\ uploadProgress' = 0)]_vars

\* C9 amended: the failure entry comes with the reset to idle and 0; the
\* success entry leaves the upload state as it was while the refresh calls
\* are awaited; the upload state is idle with percent 0 whenever no upload
\* run is suspended.
C9_IdleAfterUploadRun ==
  [][/\ AppendsUploadEntry("upload_failed") =>
          (~uploading' /\ uploadProgress' = 0 /\ upload'.pc = "idle")
     /\ AppendsUploadEntry("upload_ok") =>
          (uploading' /\ uploadProgress' = uploadProgress /\ upload'.pc = "docs")
     /\ upload'.pc = "idle" => (~uploading' /\ uploadProgress' = 0)]_vars

C9_Witness ==
  /\ upload.pc = "docs" /\ uploading /\ uploadProgress = 100
  /\ messages # <<>> /\ Tpl(Last(messages)) = "upload_ok"

\* C10: if every transport call of a chat turn or an upload resolves, a
\* chat turn that has started gets back to loading = FALSE and an upload
\* that has started gets back to uploading = FALSE with percent 0.
C10_BackToIdle ==
  /\ loading ~> ~loading
  /\ uploading ~> (~uploading /\ uploadProgress = 0)

\* both a chat turn and an upload have run and are over
C10_Witness ==
  /\ turns = 1 /\ ~loading
  /\ ~uploading /\ uploadProgress = 0
  /\ HasTpl(messages, "upload_failed")
  /\ HasTpl(messages, "chat_error")

\* C11: a clearAllDocuments call is issued only by a Clear All step whose
\* confirmation was accepted, and a Clear All step whose confirmation was
\* declined issues no call and leaves the transcript, the document list and
\* the stats as they were.
C11_ClearNeedsConfirm ==
  [][/\ BagCardinality(clearRuns') > BagCardinality(clearRuns) =>
          handleClearDocuments(TRUE)
     /\ handleClearDocuments(FALSE) =>
          UNCHANGED <<messages, documents, stats, clearRuns, backendDocs>>]_vars

\* there is something to lose and Clear All can be pressed: the transcript
\* and the document list are not empty, the stats are loaded
C11_Witness ==
  /\ messages # <<>> /\ documents # <<>> /\ stats # Null
  /\ clearRuns = EmptyBag /\ ops < MaxOps

\* the calls a step issues
IssuedCalls == chatCalls' \ chatCalls
SendAcceptedStep == handleSendMessage /\ SendAccepted(inputValue, loading)

\* C12 as claimed: the history of every chatWithContext call holds the user
\* entry that the call's own submission appended.
C12_HistoryHasOwnMessage ==
  \A c \in chatCalls :
    \E i \in 1..Len(c.history) :
      c.history[i].role = "user" /\ c.history[i].timestamp = c.turn

\* C12 amended: the history of a call is built from the transcript as it was
\* before the submission appended its user entry; that entry, whose text is
\* the call's query, ends the new transcript and is not in the history.
C12_HistoryBeforeAppend ==
  [][\A c \in IssuedCalls :
       /\ c.history = History(messages)
       /\ \A i \in 1..Len(c.history) : c.history[i].timestamp # c.turn
       /\ AppendsOne(messages, messages')
       /\ Last(messages').role = "user"
       /\ Last(messages').timestamp = c.turn
       /\ Last(messages').content.text = c.query]_vars

\* the second turn's call is in flight: its history is the first turn, and
\* the transcript holds one more non-system entry than the history
C12_Witness ==
  \E c \in chatCalls :
    /\ Len(c.history) = 2
    /\ Len(History(messages)) = 3
    /\ Last(messages).role = "user" /\ Last(messages).timestamp = c.turn

\* C13: an accepted submission issues exactly one chatWithContext call, with
\* top_k = 3 and with an empty history when the transcript it was made from
\* held no user or assistant entry; no other step issues a call.
C13_OneCallPerSubmission ==
  [][/\ SendAcceptedStep =>
          /\ Cardinality(IssuedCalls) = 1
          /\ chatCalls \subseteq chatCalls'
          /\ \A c \in IssuedCalls :
               /\ c.top_k = 3
               /\ c.query = inputValue
               /\ (\A i \in 1..Len(messages) :
                      messages[i].role \notin {"user", "assistant"})
                    => c.history = <<>>
     /\ IssuedCalls # {} => SendAcceptedStep]_vars

\* a first question asked under a transcript that holds only a system entry
C13_Witness ==
  \E c \in chatCalls :
    /\ c.history = <<>> /\ c.top_k = 3 /\ Trim(c.query) = <<"q">>
    /\ Len(messages) = 2 /\ messages[1].role = "system"

\* C14: the step taken when checkHealth, listDocuments or getStats of an
\* initialization run fails appends exactly one system entry and leaves the
\* state whose fetch the run did not complete at its default: null health
\* when checkHealth failed, an empty document list when listDocuments was
\* not answered, null stats.
C14_InitFailureAppends ==
  [][\A r \in BagToSet(initRuns) :
       initializeApp_catch(r) =>
         /\ AppendsOne(messages, messages')
         /\ Last(messages').role = "system"
         /\ r.pc = "health" => health' = Null
         /\ r.pc \in {"health", "docs"} => documents' = <<>>
         /\ stats' = Null]_vars

\* the step taken when an awaited transport call fails, in any handler
FailedCallStep ==
  \/ ChatRejectedStep
  \/ \E r \in BagToSet(initRuns) : initializeApp_catch(r)
  \/ \E e \in Errors : handleFileUpload_catch(e)
  \/ \E r \in BagToSet(clearRuns), e \in Errors : handleClearDocuments_catch(r, e)

\* C15: the step taken when a transport call fails, in any handler, adds
\* exactly one entry to the transcript, of role system, and keeps the
\* entries that were there.
C15_OneEntryPerFailure ==
  [][FailedCallStep =>
       /\ AppendsOne(messages, messages')
       /\ Last(messages').role = "system"]_vars

\* a progress event is delivered to the callback
ProgressStep == \E l \in 1..upload.file.size : onUploadProgress(l)

UploadOrder ==
  {<<"idle", "upload">>, <<"upload", "docs">>, <<"docs", "stats">>,
   <<"upload", "idle">>, <<"docs", "idle">>, <<"stats", "idle">>}

\* C17: the step that folds in a successful uploadDocument appends the
\* success entry with the chunk count and leaves the run awaiting
\* listDocuments; an upload run awaits uploadDocument, listDocuments and
\* getStats once each, in that order, until it ends; the answered
\* listDocuments sets the document list to the list of the response and the
\* answered getStats sets the stats to the snapshot of the response.
C17_RefreshAfterUpload ==
  [][/\ upload'.pc # upload.pc => <<upload.pc, upload'.pc>> \in UploadOrder
     /\ (upload.pc = "upload" /\ upload'.pc = "docs") =>
          /\ AppendsOne(messages, messages')
          /\ Tpl(Last(messages')) = "upload_ok"
          /\ Last(messages').content.n = Last(backendDocs').size
          /\ UNCHANGED <<documents, stats>>
     /\ (upload.pc = "docs" /\ upload'.pc = "stats") =>
          /\ upload.resp # Null
          /\ \A d \in upload.resp : documents' = d.documents
          /\ UNCHANGED <<messages, stats>>
     /\ (upload.pc = "stats" /\ upload'.pc = "idle" /\ messages' = messages) =>
          /\ stats' = {[num_chunks |-> TotalChunks(backendDocs),
                        has_index |-> backendDocs # <<>>]}
          /\ UNCHANGED documents]_vars

\* the second document's upload awaits getStats: the list shown was
\* replaced by the two documents of the response
C17_Witness ==
  /\ upload.pc = "stats"
  /\ Len(documents) = 2 /\ documents = backendDocs
  /\ HasTpl(messages, "upload_ok")

\* the number of initialization runs of b that await the call pc
AwaitedBy(b, pc) ==
  BagCardinality([r \in {x \in BagToSet(b) : x.pc = pc} |-> CopiesIn(r, b)])

\* C18: a run of initializeApp comes to await listDocuments only by the step
\* that folds in its successful checkHealth, and to await getStats only by
\* the step that folds in its successful listDocuments; the step taken when
\* one of its calls fails ends the run without issuing a later call and
\* without setting health, document list or stats.
C18_SequentialInit ==
  [][/\ AwaitedBy(initRuns', "docs") > AwaitedBy(initRuns, "docs") =>
          \E r \in BagToSet(initRuns) : initializeApp_health(r)
     /\ AwaitedBy(initRuns', "stats") > AwaitedBy(initRuns, "stats") =>
          \E r \in BagToSet(initRuns) : initializeApp_docs(r)
     /\ \A r \in BagToSet(initRuns) :
          initializeApp_catch(r) =>
            /\ BagCardinality(initRuns') = BagCardinality(initRuns) - 1
            /\ AwaitedBy(initRuns', "docs") <= AwaitedBy(initRuns, "docs")
            /\ AwaitedBy(initRuns', "stats") <= AwaitedBy(initRuns, "stats")
            /\ UNCHANGED <<health, documents, stats>>]_vars

\* checkHealth failed at startup: no run is left, and although the backend
\* holds a document, neither list nor stats were fetched
C18_Witness ==
  /\ initRuns = EmptyBag /\ ops = 0
  /\ messages # <<>> /\ Tpl(Last(messages)) = "init_failed"
  /\ health = Null /\ documents = <<>> /\ stats = Null
  /\ backendDocs # <<>>

\* C19: an upload in progress does not keep a non-blank submission from
\* starting a chat turn and a chat turn in flight does not keep a chosen
\* file from starting an upload: whenever the operation's own guard lets it
\* start, it can start, whatever the state of the other.
C19_NotMutuallyExclusive ==
  /\ (uploading /\ ~loading /\ Trim(inputValue) # <<>> /\ ops < MaxOps) =>
       ENABLED (handleSendMessage /\ loading')
  /\ (loading /\ ~uploading /\ ops < MaxOps) =>
       \A f \in Files : ENABLED (handleFileUpload(<<f>>) /\ uploading')

\* an upload and a chat turn are in progress at once
C19_Witness ==
  /\ uploading /\ loading
  /\ upload.pc = "upload" /\ chatCalls # {}

\* C20: the upload failure entry is appended only by a run whose
\* uploadDocument call failed, never by a run that has appended the success
\* entry and awaits listDocuments or getStats.
C20_FailureOnlyIfUploadFailed ==
  [][AppendsUploadEntry("upload_failed") => upload.pc = "upload"]_vars

\* C21: every assistant entry of the transcript comes after the user entry
\* of the same chat turn.
C21_AssistantAfterItsUser ==
  \A j \in 1..Len(messages) :
    messages[j].role = "assistant" =>
      \E i \in 1..(j - 1) :
        /\ messages[i].role = "user"
        /\ messages[i].timestamp = messages[j].timestamp

\* no run that reads or writes the document list is suspended
NoDocumentsRun ==
  initRuns = EmptyBag /\ upload.pc = "idle" /\ clearRuns = EmptyBag

\* a run that reads or writes the document list ends without error
DocumentsRunDone ==
  \/ \E r \in BagToSet(initRuns) : initializeApp_stats(r)
  \/ handleFileUpload_stats
  \/ \E r \in BagToSet(clearRuns) : handleClearDocuments_stats(r)

\* the transcript shows no failure of a run
NoFailureShown(msgs) ==
  \A t \in {"init_failed", "upload_failed", "clear_error"} : ~HasTpl(msgs, t)

\* C22: when an initialization, upload or clear-all run ends without error,
\* leaves no other such run suspended and the transcript shows no failure of
\* a run, the document list shown is the backend's document list.
C22_DocumentsAsBackend ==
  [][(DocumentsRunDone /\ NoDocumentsRun' /\ NoFailureShown(messages')) =>
       documents' = backendDocs']_vars

====
